---- MODULE Spec2Model ----
(***************************************************************************)
(* Model of src/src/htr_pipeline/inferencer.py: the Inferencer             *)
(* orchestrator (predict_regions, predict_lines, transcribe) as a state    *)
(* machine that executes one statement of the running method per step.     *)
(*                                                                         *)
(* Units: scores and thresholds are in tenths (5 is 0.5, 15 is 1.5, -1 is  *)
(* -0.1); transcription scores are in 1e-5 before rounding and in 1e-4     *)
(* after it.  A mask is a set of pixels <<x, y>>.                          *)
(*                                                                         *)
(* FilterSegMask, SegMaskHelper, OrderObject and Preprocess are imported   *)
(* by inferencer.py (lines 10-14); they are modelled from the component    *)
(* contracts of the specification (sections 4.1 to 4.4).                   *)
(***************************************************************************)
EXTENDS Integers, Sequences, FiniteSets

VARIABLES
    self,           \* the Inferencer's fields
    pc,             \* position in the running method ("idle", "done", or a line label)
    op,             \* the running method
    args,           \* the call's arguments
    image,          \* local: the image the stages work on
    result_pred,    \* local: the model's raw prediction
    filtered,       \* local: filtered_result_pred / filtered_result_tl_pred
    result_align,   \* local: result_align / result_tl_align
    result_clean,   \* local: result_clean / result_tl_clean
    result_viz,     \* local: result_viz
    cropped,        \* local: regions_cropped / lines_cropped
    polygons,       \* local: polygons / lines_polygons
    order,          \* local: order / ordered_indices
    outcome,        \* what the call returned or raised
    calls,          \* log of the collaborator calls made by the running call
    prev            \* the preceding call's arguments and outcome, when this call repeats it

vars == <<self, pc, op, args, image, result_pred, filtered, result_align,
          result_clean, result_viz, cropped, polygons, order, outcome, calls, prev>>

locals == <<image, result_pred, filtered, result_align, result_clean,
            result_viz, cropped, polygons, order>>

---------------------------------------------------------------------------
(* Bounds and input domains *)

\* most instances one model prediction holds
MaxInst == 2

Rect(x0, x1, y0, y1) == (x0..x1) \X (y0..y1)

\* a body block, a block nested in its upper half, a block half inside its lower
\* half, and a small block in the margin
MaskPool == {Rect(0, 1, 0, 1), Rect(0, 1, 0, 0), Rect(1, 2, 1, 1), Rect(3, 3, 0, 0)}

ScorePool == {3, 8}

PredThresholds == {-1, 5, 15}

ContThresholds == {-1, 0, 6, 15}

SpacingFactors == {5, 30}

RawInstances == [mask : MaskPool, score : ScorePool, aligned : {FALSE}]

RawPredictions == UNION {[1..n -> RawInstances] : n \in 0..MaxInst}

\* a page as handed to predict_regions: not yet binarised
PageImages == [binarized : {FALSE}, inst : RawPredictions]

\* a region crop as handed to predict_lines: cut from the binarised page
RegionImages == [binarized : {TRUE}, inst : RawPredictions]

\* a line crop as handed to transcribe: what the transcription model reads off it
LineImages == [text : {"ab", ""}, scores : {98766, 12344, 50004}]

\* Python's None, and a present value; val is always a sequence
None == [none |-> TRUE, val |-> <<>>]

Some(v) == [none |-> FALSE, val |-> v]

NoArgs == [image |-> <<>>, pred_score_threshold |-> 5, containments_threshold |-> 5,
           line_spacing_factor |-> 5, visualize |-> TRUE, custom_track |-> TRUE]

NoOutcome == [status |-> "none", error |-> "", value |-> <<>>]

Raised(e) == [status |-> "raised", error |-> e, value |-> <<>>]

Returned(v) == [status |-> "returned", error |-> "", value |-> v]

NoPrev == [set |-> FALSE, args |-> NoArgs, outcome |-> NoOutcome]

---------------------------------------------------------------------------
(* Geometry *)

Area(m) == Cardinality(m)

MinOf(S) == CHOOSE a \in S : \A b \in S : a <= b

MaxOf(S) == CHOOSE a \in S : \A b \in S : a >= b

Xs(m) == {p[1] : p \in m}

Ys(m) == {p[2] : p \in m}

\* twice the centre of the bounding box
CenterX2(m) == MinOf(Xs(m)) + MaxOf(Xs(m))

CenterY2(m) == MinOf(Ys(m)) + MaxOf(Ys(m))

Height(m) == MaxOf(Ys(m)) - MinOf(Ys(m)) + 1

BBox(m) == <<MinOf(Xs(m)), MinOf(Ys(m)), MaxOf(Xs(m)), MaxOf(Ys(m))>>

\* containment_ratio(a, b) = area(a /\ b) / area(a) >= t / 10, without division
ContainedAtLeast(a, b, t) == 10 * Area(a \cap b) >= t * Area(a)

Abs(n) == IF n < 0 THEN -n ELSE n

RemoveAt(s, i) == [k \in 1..(Len(s) - 1) |-> IF k < i THEN s[k] ELSE s[k + 1]]

\* the permutations of 1..n, as sequences
Perms(n) == {p \in [1..n -> 1..n] : \A i, j \in 1..n : p[i] = p[j] => i = j}

---------------------------------------------------------------------------
(* Collaborators the Inferencer calls *)

\* Preprocess.binarize_img
binarize_img(img) == [img EXCEPT !.binarized = TRUE]

\* a segmentation model called on an image: result["predictions"][0]
ModelPredict(model, img) ==
    IF model \in {"region_model", "line_model"} THEN img.inst ELSE <<>>

\* the transcription model called on a line crop: result_rec["predictions"][0]
HtrPredict(model, img) == [text |-> img.text, scores |-> img.scores]

\* a threshold parameter inside [0, 1]
ThresholdValid(t) == 0 <= t /\ t <= 10

\* FilterSegMask.filter_on_pred_threshold: the stable filter score >= threshold
filter_on_pred_threshold(pred, t) ==
    LET Keep(e) == e.score >= t IN SelectSeq(pred, Keep)

\* SegMaskHelper.align_masks_with_image: every mask brought into the image's frame
\* (model resolution and image resolution coincide here, so the pixels stay)
align_masks_with_image(pred, img) ==
    [k \in 1..Len(pred) |-> [pred[k] EXCEPT !.aligned = TRUE]]

\* a is absorbed by b
Absorbed(a, b, t) == ContainedAtLeast(a.mask, b.mask, t)

\* of a mutually absorbed pair, the one at index i loses against the one at index j
Loses(s, i, j) ==
    \/ Area(s[i].mask) < Area(s[j].mask)
    \/ /\ Area(s[i].mask) = Area(s[j].mask)
       /\ \/ s[i].score < s[j].score
          \/ s[i].score = s[j].score /\ i > j

Victims(s, t) ==
    {i \in 1..Len(s) : \E j \in 1..Len(s) :
        /\ j # i
        /\ Absorbed(s[i], s[j], t)
        /\ (Absorbed(s[j], s[i], t) => Loses(s, i, j))}

\* FilterSegMask.remove_overlapping_masks: survivors recomputed until no pair is left
RECURSIVE remove_overlapping_masks(_, _)
remove_overlapping_masks(s, t) ==
    IF Victims(s, t) = {} THEN s
    ELSE remove_overlapping_masks(RemoveAt(s, MaxOf(Victims(s, t))), t)

\* the segmentation model's visualize: the image with the predictions drawn on it
visualize(img, preds) == [image |-> img, drawn |-> {preds[k].mask : k \in 1..Len(preds)}]

\* the boundary of a (rectangular) mask, traced corner by corner
PolygonOf(m) ==
    LET b == BBox(m) IN <<<<b[1], b[2]>>, <<b[3], b[2]>>, <<b[3], b[4]>>, <<b[1], b[4]>>>>

CropOf(m, img) == [bbox |-> BBox(m), pixels |-> m, binarized |-> img.binarized]

\* SegMaskHelper.crop_masks: (crops, polygons), index-aligned with the instances
crop_masks(preds, img) ==
    <<[k \in 1..Len(preds) |-> CropOf(preds[k].mask, img)],
      [k \in 1..Len(preds) |-> PolygonOf(preds[k].mask)]>>

\* tuple a comes before tuple b of the same length, lexicographically
LexLess(a, b) ==
    \E k \in 1..Len(a) : a[k] < b[k] /\ \A h \in 1..(k - 1) : a[h] = b[h]

\* the permutation of the indices of keys that puts the keys in increasing order
SortIndices(keys) ==
    CHOOSE p \in Perms(Len(keys)) :
        \A i, j \in 1..Len(keys) : i < j => LexLess(keys[p[i]], keys[p[j]])

\* the largest instance of s (the first of them), which spans the main text column
MainIndex(s) ==
    CHOOSE i \in 1..Len(s) : \A j \in 1..Len(s) :
        \/ Area(s[j].mask) < Area(s[i].mask)
        \/ Area(s[j].mask) = Area(s[i].mask) /\ i <= j

\* the horizontal centre of instance i lies outside the main text column
IsMarginalia(s, i) ==
    LET main == s[MainIndex(s)].mask IN
    \/ CenterX2(s[i].mask) < 2 * MinOf(Xs(main))
    \/ CenterX2(s[i].mask) > 2 * MaxOf(Xs(main))

\* OrderObject.order_regions_marginalia: main text top to bottom, then marginalia
\* top to bottom
order_regions_marginalia(s) ==
    IF Len(s) = 0 THEN <<>>
    ELSE SortIndices([i \in 1..Len(s) |->
             <<IF IsMarginalia(s, i) THEN 1 ELSE 0, CenterY2(s[i].mask),
               CenterX2(s[i].mask), i>>])

\* twice the median of the line heights
MedianHeight2(s) ==
    LET n == Len(s)
        byH == SortIndices([i \in 1..n |-> <<Height(s[i].mask), i>>])
    IN  Height(s[byH[(n + 1) \div 2]].mask) + Height(s[byH[(n + 2) \div 2]].mask)

\* OrderObject.order_lines: bands top to bottom, left to right within a band
order_lines(s, factor) ==
    LET n == Len(s)
        byY == SortIndices([i \in 1..n |-> <<CenterY2(s[i].mask), i>>])
        Pos(i) == CHOOSE k \in 1..n : byY[k] = i
        \* a new band starts where the gap to the line above reaches the band threshold
        Break(k) == 10 * Abs(CenterY2(s[byY[k]].mask) - CenterY2(s[byY[k - 1]].mask))
                        >= factor * MedianHeight2(s)
        Band(i) == Cardinality({k \in 2..Pos(i) : Break(k)})
    IN  IF n = 0 THEN <<>>
        ELSE SortIndices([i \in 1..n |-> <<Band(i), CenterX2(s[i].mask), i>>])

\* Python's round(x, 4) on a score given in 1e-5: the nearest multiple of 1e-4
\* (an exact half goes to the even neighbour)
Round4(x) ==
    LET q == x \div 10
        r == x % 10
    IN  IF r > 5 \/ (r = 5 /\ q % 2 = 1) THEN q + 1 ELSE q

---------------------------------------------------------------------------
(* Statements of the Inferencer's methods *)

\* Inferencer.__init__
InitSelf ==
    [seg_model |-> "region_model", line_model |-> "line_model",
     htr_model_inferencer |-> "htr_model", process_seg_mask |-> "SegMaskHelper",
     postprocess_seg_mask |-> "FilterSegMask", ordering |-> "OrderObject",
     preprocess_img |-> "Preprocess"]

\* the lists returned as cropped, the reading order ignored
OrderedByIdentity(xs, ord) == xs

\* [xs[i] for i in order]
OrderedBy(xs, ord) == [k \in 1..Len(ord) |-> xs[ord[k]]]

\* the emptiness check lost
NoMasksNever(f) == FALSE

\* len(filtered.pred_instances.masks) == 0
NoMasks(f) == Len(f) = 0

\* the visualize flag ignored
VizResultAlways(flag, model, img, preds) == Some(<<visualize(img, preds)>>)

\* result_viz: the model's visualisation if visualize, else None
VizResult(flag, model, img, preds) ==
    IF flag THEN Some(<<visualize(img, preds)>>) ELSE None

\* what the statements of a model call, filter call, ... add to the log
Logged(name) == Append(calls, name)

ResetLocals(img) ==
    /\ image' = img
    /\ result_pred' = <<>>
    /\ filtered' = <<>>
    /\ result_align' = <<>>
    /\ result_clean' = <<>>
    /\ result_viz' = None
    /\ cropped' = <<>>
    /\ polygons' = <<>>
    /\ order' = <<>>
    /\ outcome' = NoOutcome
    /\ calls' = <<>>

\* the call ends by raising e
Raise(e) == pc' = "done" /\ outcome' = Raised(e)

\* the call ends by returning v
Return(v) == pc' = "done" /\ outcome' = Returned(v)

---------------------------------------------------------------------------
(* The caller *)

Idle == pc = "idle"

\* a call of predict_regions(input_image, pred_score_threshold, containments_threshold, visualize)
CallPredictRegions ==
    /\ Idle
    /\ \E img \in PageImages, pt \in PredThresholds, ct \in ContThresholds, v \in BOOLEAN :
         /\ args' = [NoArgs EXCEPT !.image = img, !.pred_score_threshold = pt,
                                   !.containments_threshold = ct, !.visualize = v]
         /\ ResetLocals(img)
    /\ op' = "predict_regions"
    /\ pc' = "r37"
    /\ prev' = NoPrev
    /\ UNCHANGED self

\* a call of predict_lines(image, ..., line_spacing_factor, visualize, custom_track)
CallPredictLines ==
    /\ Idle
    /\ \E img \in RegionImages, pt \in PredThresholds, ct \in ContThresholds,
          f \in SpacingFactors, v \in BOOLEAN, strict \in BOOLEAN :
         /\ args' = [NoArgs EXCEPT !.image = img, !.pred_score_threshold = pt,
                                   !.containments_threshold = ct, !.line_spacing_factor = f,
                                   !.visualize = v, !.custom_track = strict]
         /\ ResetLocals(img)
    /\ op' = "predict_lines"
    /\ pc' = "l83"
    /\ prev' = NoPrev
    /\ UNCHANGED self

\* a call of transcribe(line_cropped)
CallTranscribe ==
    /\ Idle
    /\ \E img \in LineImages :
         /\ args' = [NoArgs EXCEPT !.image = img]
         /\ ResetLocals(img)
    /\ op' = "transcribe"
    /\ pc' = "t124"
    /\ prev' = NoPrev
    /\ UNCHANGED self

\* the caller repeats the finished call on the same image with the same thresholds
\* and the visualize flag flipped
Recall ==
    /\ pc = "done"
    /\ op \in {"predict_regions", "predict_lines"}
    /\ ~prev.set
    /\ prev' = [set |-> TRUE, args |-> args, outcome |-> outcome]
    /\ args' = [args EXCEPT !.visualize = ~args.visualize]
    /\ ResetLocals(args.image)
    /\ pc' = IF op = "predict_regions" THEN "r37" ELSE "l83"
    /\ UNCHANGED <<self, op>>

\* the caller has consumed the outcome; nothing of the call is kept
Finish ==
    /\ pc = "done"
    /\ pc' = "idle"
    /\ op' = "none"
    /\ args' = NoArgs
    /\ ResetLocals(<<>>)
    /\ prev' = NoPrev
    /\ UNCHANGED self

---------------------------------------------------------------------------
(* predict_regions, statement by statement *)

\* line 37 lost: the region model gets the image as it came
R37Skipped ==
    /\ pc = "r37"
    /\ pc' = "r41"
    /\ UNCHANGED <<self, op, args, locals, outcome, calls, prev>>

\* line 37: input_image = self.preprocess_img.binarize_img(input_image)
R37 ==
    /\ pc = "r37"
    /\ image' = binarize_img(image)
    /\ calls' = Logged("binarize_img")
    /\ pc' = "r41"
    /\ UNCHANGED <<self, op, args, result_pred, filtered, result_align, result_clean,
                   result_viz, cropped, polygons, order, outcome, prev>>

\* the region model asked a second time when it predicted nothing
R41Retry ==
    /\ pc = "r41"
    /\ result_pred' = ModelPredict(self.seg_model, image)
    /\ calls' = IF ModelPredict(self.seg_model, image) = <<>>
                THEN Append(Logged("seg_model"), "seg_model")
                ELSE Logged("seg_model")
    /\ pc' = "r44"
    /\ UNCHANGED <<self, op, args, image, filtered, result_align, result_clean,
                   result_viz, cropped, polygons, order, outcome, prev>>

\* lines 39-42: result = self.seg_model(image); result_pred = result["predictions"][0]
R41 ==
    /\ pc = "r41"
    /\ result_pred' = ModelPredict(self.seg_model, image)
    /\ calls' = Logged("seg_model")
    /\ pc' = "r44"
    /\ UNCHANGED <<self, op, args, image, filtered, result_align, result_clean,
                   result_viz, cropped, polygons, order, outcome, prev>>

\* lines 44-46: filtered_result_pred = filter_on_pred_threshold(result_pred, ...)
R44 ==
    /\ pc = "r44"
    /\ calls' = Logged("filter_on_pred_threshold")
    /\ IF ThresholdValid(args.pred_score_threshold)
       THEN /\ filtered' = filter_on_pred_threshold(result_pred, args.pred_score_threshold)
            /\ pc' = "r48"
            /\ UNCHANGED outcome
       ELSE /\ Raise("InvalidThreshold")
            /\ UNCHANGED filtered
    /\ UNCHANGED <<self, op, args, image, result_pred, result_align, result_clean,
                   result_viz, cropped, polygons, order, prev>>

\* lines 48-51: raise gr.Error("No Regions were predicted by the model") on no masks
R48 ==
    /\ pc = "r48"
    /\ IF NoMasks(filtered)
       THEN Raise("NoRegionsDetected")
       ELSE pc' = "r52" /\ UNCHANGED outcome
    /\ UNCHANGED <<self, op, args, locals, calls, prev>>

\* line 52 lost: the filtered masks go to overlap resolution unaligned
R52Skipped ==
    /\ pc = "r52"
    /\ result_align' = filtered
    /\ pc' = "r53"
    /\ UNCHANGED <<self, op, args, image, result_pred, filtered, result_clean,
                   result_viz, cropped, polygons, order, outcome, calls, prev>>

\* line 52: result_align = align_masks_with_image(filtered_result_pred, image)
R52 ==
    /\ pc = "r52"
    /\ result_align' = align_masks_with_image(filtered, image)
    /\ calls' = Logged("align_masks_with_image")
    /\ pc' = "r53"
    /\ UNCHANGED <<self, op, args, image, result_pred, filtered, result_clean,
                   result_viz, cropped, polygons, order, outcome, prev>>

\* lines 53-55: result_clean = remove_overlapping_masks(result_align, containments_threshold)
R53 ==
    /\ pc = "r53"
    /\ calls' = Logged("remove_overlapping_masks")
    /\ IF ThresholdValid(args.containments_threshold)
       THEN /\ result_clean' = remove_overlapping_masks(result_align,
                                                        args.containments_threshold)
            /\ pc' = "r57"
            /\ UNCHANGED outcome
       ELSE /\ Raise("InvalidThreshold")
            /\ UNCHANGED result_clean
    /\ UNCHANGED <<self, op, args, image, result_pred, filtered, result_align,
                   result_viz, cropped, polygons, order, prev>>

\* lines 57-62: result_viz = self.seg_model.visualize(...)[0] if visualize else None
R57 ==
    /\ pc = "r57"
    /\ result_viz' = VizResult(args.visualize, self.seg_model, image, result_clean)
    /\ calls' = IF args.visualize THEN Logged("visualize") ELSE calls
    /\ pc' = "r64"
    /\ UNCHANGED <<self, op, args, image, result_pred, filtered, result_align,
                   result_clean, cropped, polygons, order, outcome, prev>>

\* line 64: regions_cropped, polygons = crop_masks(result_clean, image)
R64 ==
    /\ pc = "r64"
    /\ cropped' = crop_masks(result_clean, image)[1]
    /\ polygons' = crop_masks(result_clean, image)[2]
    /\ calls' = Logged("crop_masks")
    /\ pc' = "r65"
    /\ UNCHANGED <<self, op, args, image, result_pred, filtered, result_align,
                   result_clean, result_viz, order, outcome, prev>>

\* line 65: order = self.ordering.order_regions_marginalia(result_clean)
R65 ==
    /\ pc = "r65"
    /\ order' = order_regions_marginalia(result_clean)
    /\ calls' = Logged("order_regions_marginalia")
    /\ pc' = "r67"
    /\ UNCHANGED <<self, op, args, image, result_pred, filtered, result_align,
                   result_clean, result_viz, cropped, polygons, outcome, prev>>

MasksOf(preds) == [k \in 1..Len(preds) |-> preds[k].mask]

\* lines 67-71: the three lists taken in reading order, and the return
R67 ==
    /\ pc = "r67"
    /\ Return(<<result_viz, Some(OrderedBy(cropped, order)),
                Some(OrderedBy(polygons, order)),
                Some(OrderedBy(MasksOf(result_clean), order))>>)
    /\ UNCHANGED <<self, op, args, locals, calls, prev>>

---------------------------------------------------------------------------
(* predict_lines, statement by statement *)

\* lines 83-84: result_tl = self.line_model(image); result_tl_pred = ...["predictions"][0]
L83 ==
    /\ pc = "l83"
    /\ result_pred' = ModelPredict(self.line_model, image)
    /\ calls' = Logged("line_model")
    /\ pc' = "l86"
    /\ UNCHANGED <<self, op, args, image, filtered, result_align, result_clean,
                   result_viz, cropped, polygons, order, outcome, prev>>

\* lines 86-88: filtered_result_tl_pred = filter_on_pred_threshold(result_tl_pred, ...)
L86 ==
    /\ pc = "l86"
    /\ calls' = Logged("filter_on_pred_threshold")
    /\ IF ThresholdValid(args.pred_score_threshold)
       THEN /\ filtered' = filter_on_pred_threshold(result_pred, args.pred_score_threshold)
            /\ pc' = "l90"
            /\ UNCHANGED outcome
       ELSE /\ Raise("InvalidThreshold")
            /\ UNCHANGED filtered
    /\ UNCHANGED <<self, op, args, image, result_pred, result_align, result_clean,
                   result_viz, cropped, polygons, order, prev>>

\* custom_track ignored: no line mask is always an error
NoLinesOutcomeStrict(custom_track) == Raised("NoLinesDetected")

\* what lines 90-94 do when no line mask is left
NoLinesOutcome(custom_track) ==
    IF custom_track THEN Raised("NoLinesDetected") ELSE Returned(<<None, None, None>>)

\* lines 90-96 with the empty result remembered on the Inferencer
L90Remembering ==
    /\ pc = "l90"
    /\ IF NoMasks(filtered)
       THEN /\ pc' = "done"
            /\ outcome' = NoLinesOutcome(args.custom_track)
            /\ self' = [self EXCEPT !.line_model = "none"]
       ELSE pc' = "l97" /\ UNCHANGED <<outcome, self>>
    /\ UNCHANGED <<op, args, locals, calls, prev>>

\* lines 90-96: raise gr.Error("No Lines were predicted by the model") if custom_track,
\* return None, None, None if not
L90 ==
    /\ pc = "l90"
    /\ IF NoMasks(filtered)
       THEN pc' = "done" /\ outcome' = NoLinesOutcome(args.custom_track)
       ELSE pc' = "l97" /\ UNCHANGED outcome
    /\ UNCHANGED <<self, op, args, locals, calls, prev>>

\* line 97: result_tl_align = align_masks_with_image(filtered_result_tl_pred, image)
L97 ==
    /\ pc = "l97"
    /\ result_align' = align_masks_with_image(filtered, image)
    /\ calls' = Logged("align_masks_with_image")
    /\ pc' = "l98"
    /\ UNCHANGED <<self, op, args, image, result_pred, filtered, result_clean,
                   result_viz, cropped, polygons, order, outcome, prev>>

\* lines 98-100: result_tl_clean = remove_overlapping_masks(result_tl_align, ...)
L98 ==
    /\ pc = "l98"
    /\ calls' = Logged("remove_overlapping_masks")
    /\ IF ThresholdValid(args.containments_threshold)
       THEN /\ result_clean' = remove_overlapping_masks(result_align,
                                                        args.containments_threshold)
            /\ pc' = "l102"
            /\ UNCHANGED outcome
       ELSE /\ Raise("InvalidThreshold")
            /\ UNCHANGED result_clean
    /\ UNCHANGED <<self, op, args, image, result_pred, filtered, result_align,
                   result_viz, cropped, polygons, order, prev>>

\* lines 102-110: result_viz = self.seg_model.visualize(...)[0] if visualize else None
L102 ==
    /\ pc = "l102"
    /\ result_viz' = VizResult(args.visualize, self.seg_model, image, result_clean)
    /\ calls' = IF args.visualize THEN Logged("visualize") ELSE calls
    /\ pc' = "l112"
    /\ UNCHANGED <<self, op, args, image, result_pred, filtered, result_align,
                   result_clean, cropped, polygons, order, outcome, prev>>

\* line 112: lines_cropped, lines_polygons = crop_masks(result_tl_clean, image)
L112 ==
    /\ pc = "l112"
    /\ cropped' = crop_masks(result_clean, image)[1]
    /\ polygons' = crop_masks(result_clean, image)[2]
    /\ calls' = Logged("crop_masks")
    /\ pc' = "l113"
    /\ UNCHANGED <<self, op, args, image, result_pred, filtered, result_align,
                   result_clean, result_viz, order, outcome, prev>>

\* lines 113-115: ordered_indices = self.ordering.order_lines(result_tl_clean, factor)
L113 ==
    /\ pc = "l113"
    /\ order' = order_lines(result_clean, args.line_spacing_factor)
    /\ calls' = Logged("order_lines")
    /\ pc' = "l117"
    /\ UNCHANGED <<self, op, args, image, result_pred, filtered, result_align,
                   result_clean, result_viz, cropped, polygons, outcome, prev>>

\* lines 117-120: the two lists taken in reading order, and the return
L117 ==
    /\ pc = "l117"
    /\ Return(<<result_viz, Some(OrderedBy(cropped, order)),
                Some(OrderedBy(polygons, order))>>)
    /\ UNCHANGED <<self, op, args, locals, calls, prev>>

---------------------------------------------------------------------------
(* transcribe *)

\* line 124: result_rec = self.htr_model_inferencer(line_cropped)
T124 ==
    /\ pc = "t124"
    /\ result_pred' = <<HtrPredict(self.htr_model_inferencer, image)>>
    /\ calls' = Logged("htr_model_inferencer")
    /\ pc' = "t125"
    /\ UNCHANGED <<self, op, args, image, filtered, result_align, result_clean,
                   result_viz, cropped, polygons, order, outcome, prev>>

\* line 125: return text, round(scores, 4)
T125 ==
    /\ pc = "t125"
    /\ Return(<<<<result_pred[1].text>>, <<Round4(result_pred[1].scores)>>>>)
    /\ UNCHANGED <<self, op, args, locals, calls, prev>>

---------------------------------------------------------------------------
(* The state machine *)

Init ==
    /\ self = InitSelf
    /\ pc = "idle"
    /\ op = "none"
    /\ args = NoArgs
    /\ image = <<>>
    /\ result_pred = <<>>
    /\ filtered = <<>>
    /\ result_align = <<>>
    /\ result_clean = <<>>
    /\ result_viz = None
    /\ cropped = <<>>
    /\ polygons = <<>>
    /\ order = <<>>
    /\ outcome = NoOutcome
    /\ calls = <<>>
    /\ prev = NoPrev

Next ==
    \/ CallPredictRegions \/ CallPredictLines \/ CallTranscribe \/ Recall \/ Finish
    \/ R37 \/ R41 \/ R44 \/ R48 \/ R52 \/ R53 \/ R57 \/ R64 \/ R65 \/ R67
    \/ L83 \/ L86 \/ L90 \/ L97 \/ L98 \/ L102 \/ L112 \/ L113 \/ L117
    \/ T124 \/ T125

Spec == Init /\ [][Next]_vars

---------------------------------------------------------------------------
(* Properties *)

Done == pc = "done"

Count(log, name) == Cardinality({k \in 1..Len(log) : log[k] = name})

IsPrefix(a, b) == Len(a) <= Len(b) /\ \A k \in 1..Len(a) : a[k] = b[k]

\* the log without the optional visualisation
Stages(log) == LET Stage(n) == n # "visualize" IN SelectSeq(log, Stage)

ThresholdsValid ==
    ThresholdValid(args.pred_score_threshold) /\ ThresholdValid(args.containments_threshold)

\* the instances of the call's image that pass its confidence threshold
FilteredOfCall == filter_on_pred_threshold(args.image.inst, args.pred_score_threshold)

\* those of them that survive overlap resolution
CleanOfCall == remove_overlapping_masks(FilteredOfCall, args.containments_threshold)

LaterStages == {"visualize", "crop_masks", "order_regions_marginalia", "order_lines"}

ModelCalls == {"binarize_img", "seg_model", "line_model", "htr_model_inferencer"}

\* C1: a predict_regions call (with thresholds in range) whose clean region set is
\* empty ends by raising NoRegionsDetected, with visualisation, cropping and
\* reading order never run; and no predict_regions call returns zero regions.
C1_NoRegionsDetected ==
    (Done /\ op = "predict_regions") =>
        /\ (ThresholdsValid /\ CleanOfCall = <<>>) =>
               /\ outcome = Raised("NoRegionsDetected")
               /\ \A k \in 1..Len(calls) : calls[k] \notin LaterStages
        /\ outcome.status = "returned" => Len(outcome.value[2].val) > 0

\* a page on which the model predicted regions, none of them confident enough
C1_Witness ==
    /\ Done /\ op = "predict_regions"
    /\ result_pred # <<>>
    /\ ThresholdsValid /\ CleanOfCall = <<>>
    /\ outcome = Raised("NoRegionsDetected")

\* C2: a predict_lines call (with a score threshold in range) that is left with no
\* line raises NoLinesDetected when custom_track is true, and returns without an
\* error when custom_track is false.
C2_NoLinesByMode ==
    (/\ Done /\ op = "predict_lines"
     /\ ThresholdValid(args.pred_score_threshold)
     /\ FilteredOfCall = <<>>) =>
        IF args.custom_track
        THEN outcome = Raised("NoLinesDetected")
        ELSE outcome.status = "returned"

\* a lenient call on a region whose predicted lines all fell below the threshold
C2_Witness ==
    /\ Done /\ op = "predict_lines"
    /\ ~args.custom_track
    /\ result_pred # <<>> /\ filtered = <<>>
    /\ outcome.status = "returned"

\* C3: predict_regions and predict_lines never return None in place of the ordered
\* crops or the ordered polygons.
C3_NeverNone ==
    (Done /\ op \in {"predict_regions", "predict_lines"} /\ outcome.status = "returned") =>
        ~outcome.value[2].none /\ ~outcome.value[3].none

\* C4: a predict_regions or predict_lines call with a threshold outside [0, 1] ends
\* by raising InvalidThreshold and has called no model (binarisation included).
C4_InvalidThresholdBeforeModels ==
    (Done /\ op \in {"predict_regions", "predict_lines"} /\ ~ThresholdsValid) =>
        /\ outcome = Raised("InvalidThreshold")
        /\ \A k \in 1..Len(calls) : calls[k] \notin ModelCalls

\* the stage order the source has: alignment before overlap resolution
SourceStages ==
    IF op = "predict_regions"
    THEN <<"binarize_img", "seg_model", "filter_on_pred_threshold",
           "align_masks_with_image", "remove_overlapping_masks", "crop_masks",
           "order_regions_marginalia">>
    ELSE <<"line_model", "filter_on_pred_threshold", "align_masks_with_image",
           "remove_overlapping_masks", "crop_masks", "order_lines">>

\* the stage order as claimed: alignment after overlap resolution
ClaimedStages ==
    IF op = "predict_regions"
    THEN <<"binarize_img", "seg_model", "filter_on_pred_threshold",
           "remove_overlapping_masks", "align_masks_with_image", "crop_masks",
           "order_regions_marginalia">>
    ELSE <<"line_model", "filter_on_pred_threshold", "remove_overlapping_masks",
           "align_masks_with_image", "crop_masks", "order_lines">>

SuccessfulRun ==
    /\ Done /\ op \in {"predict_regions", "predict_lines"}
    /\ outcome.status = "returned" /\ ~outcome.value[2].none

C6_OrderedListsAligned ==
    SuccessfulRun =>
        LET n == Len(result_clean)
            v == outcome.value
        IN  /\ order \in Perms(n)
            /\ Len(v[2].val) = n /\ Len(v[3].val) = n
            /\ \A k \in 1..n :
                 /\ v[2].val[k] = CropOf(result_clean[order[k]].mask, image)
                 /\ v[3].val[k] = PolygonOf(result_clean[order[k]].mask)
            /\ op = "predict_regions" =>
                 /\ Len(v[4].val) = n
                 /\ \A k \in 1..n : v[4].val[k] = result_clean[order[k]].mask

\* two clean regions whose reading order is not their detection order
C6_Witness ==
    /\ SuccessfulRun /\ op = "predict_regions"
    /\ Len(result_clean) = 2
    /\ order = <<2, 1>>

\* C7: one call invokes each model at most once, and only its own model; a call that
\* raised NoRegionsDetected or NoLinesDetected made its one model call and the
\* filter call, and nothing after them.
C7_NoRetries ==
    /\ \A m \in {"seg_model", "line_model", "htr_model_inferencer"} : Count(calls, m) <= 1
    /\ op = "predict_regions" =>
           Count(calls, "line_model") = 0 /\ Count(calls, "htr_model_inferencer") = 0
    /\ op = "predict_lines" =>
           Count(calls, "seg_model") = 0 /\ Count(calls, "htr_model_inferencer") = 0
    /\ op = "transcribe" =>
           Count(calls, "seg_model") = 0 /\ Count(calls, "line_model") = 0
    /\ outcome = Raised("NoRegionsDetected") =>
           calls = <<"binarize_img", "seg_model", "filter_on_pred_threshold">>
    /\ outcome = Raised("NoLinesDetected") =>
           calls = <<"line_model", "filter_on_pred_threshold">>
    /\ (Done /\ op = "transcribe") => calls = <<"htr_model_inferencer">>

\* a page on which the region model predicted nothing at all, and was asked once
C7_Witness ==
    /\ Done /\ outcome = Raised("NoRegionsDetected")
    /\ result_pred = <<>>
    /\ Count(calls, "seg_model") = 1

\* C8: predict_regions binarises once, first, and so before the region model is
\* called; predict_lines and transcribe never binarise.
C8_BinariseOnceFirst ==
    /\ (op = "predict_regions" /\ pc # "r37") =>
           /\ Count(calls, "binarize_img") = 1
           /\ calls[1] = "binarize_img"
    /\ \A k \in 1..Len(calls) : calls[k] = "seg_model" => (k > 1 /\ image.binarized)
    /\ op \in {"predict_lines", "transcribe"} => Count(calls, "binarize_img") = 0

\* the region model has just been called, on the binarised page
C8_Witness ==
    /\ op = "predict_regions" /\ pc = "r44"
    /\ calls = <<"binarize_img", "seg_model">>
    /\ image.binarized /\ ~args.image.binarized

\* C9: no step of predict_regions, predict_lines or transcribe, and no return or
\* raise, changes a field of the Inferencer.
C9_FieldsNeverChange == [][self' = self]_vars

\* a call completed after the same region's previous call yielded no lines, leniently
C9_Witness ==
    /\ Done /\ op = "predict_lines"
    /\ prev.set /\ prev.outcome = Returned(<<None, None, None>>)
    /\ self = InitSelf

\* C10: a call repeated with the visualize flag flipped ends the same way, with the
\* same ordered crops and ordered polygons; and a call with visualize false returns
\* None as its visualisation.
C10_VisualizeOnlySideOutput ==
    (Done /\ op \in {"predict_regions", "predict_lines"}) =>
        /\ prev.set =>
             /\ outcome.status = prev.outcome.status
             /\ outcome.error = prev.outcome.error
             /\ outcome.status = "returned" =>
                  /\ outcome.value[2] = prev.outcome.value[2]
                  /\ outcome.value[3] = prev.outcome.value[3]
        /\ (outcome.status = "returned" /\ ~args.visualize) => outcome.value[1] = None

\* a successful call without visualisation that repeats one with it
C10_Witness ==
    /\ SuccessfulRun
    /\ prev.set /\ ~args.visualize
    /\ ~prev.outcome.value[1].none
    /\ outcome.value[1] = None

====
